---- MODULE Spec2Model ----
(***************************************************************************)
(* Model of the Server_BLE sensor node firmware (ESP32, Arduino).          *)
(*                                                                         *)
(*   CalibrationManager  src/src/CalibrationManager.cpp                    *)
(*   SensorManager       src/src/SensorManager.cpp                         *)
(*   BLEManager          src/src/BLEManager.cpp                            *)
(*                                                                         *)
(* The sketch that owns setup()/loop() for the three managers and the      *)
(* mutator SensorManager::setSystemState are not among the sources; they   *)
(* are modelled from section 4.5 / 4.3 of the specification.               *)
(*                                                                         *)
(* Time is counted in milliseconds, as millis() returns it.  The horizon   *)
(* of every run is far below 2^32 ms, so the unsigned subtraction          *)
(* millis() - t of the code is the plain difference.                       *)
(***************************************************************************)
EXTENDS Integers, Sequences, FiniteSets, TLC

VARIABLES
    now,                          \* value returned by millis()
    elapses,                      \* number of clock advances taken so far
    booted,                       \* the init() calls have run
    \* CalibrationManager
    currentState, stateStartTime, lastLogTime,
    hdPin,                        \* level of HD_PIN (GPIO 12)
    \* SensorManager
    state, fan_state, preheat_start_time,
    bmp_initialized, last_bmp_reconnect_attempt,
    fanPin,                       \* level of FAN_PIN
    \* BLEManager
    deviceConnected, toggleCoolerRequest, calibrationCommand,
    chars,                        \* values of the GATT characteristics
    \* sketch (loop)
    wasCalibrating, lastSensorReadTime,
    \* observation of the last handler that ran
    obs,
    \* what the last call made by a driver of one manager returned
    ret,
    \* the 9-byte command frame a driver of the checksum routine builds
    packet,
    \* the fan-toggle requests a client is observed to make
    pair,
    \* what a connected client has been shown during a calibration
    seen,
    \* the two tasks that share calibrationCommand, statement by statement
    race,
    \* the receive side of Serial2 and the requests sent to the MH-Z19C
    uart

vars == << now, elapses, booted, currentState, stateStartTime, lastLogTime,
           hdPin, state, fan_state, preheat_start_time, bmp_initialized,
           last_bmp_reconnect_attempt, fanPin, deviceConnected,
           toggleCoolerRequest, calibrationCommand, chars, wasCalibrating,
           lastSensorReadTime, obs, ret, packet, pair, seen, race, uart >>

----------------------------------------------------------------------------
(* Program constants *)

PULSE_TIME_MS == 7000
STABILIZATION_TIME_MS == 1200000
LOG_PERIOD_MS == 10000
PREHEAT_TIME_MS == 60000
BMP_RETRY_MS == 5000
CO2_TIMEOUT_MS == 150
SENSOR_READ_INTERVAL == 500

(* Bounds of the model *)

MaxElapses == 8                   \* clock advances of the sequencer on its own
MaxLag == 1
BootTime == 25                    \* millis() when setup() runs
MaxTime == 1300000                \* the node's clock is not advanced beyond
MaxSensElapses == 5               \* clock advances of the SensorManager on its own
MaxExchanges == 3                 \* CO2 exchanges that wait, of the exchange on its own
MaxPollGap == 2                   \* longest time between two passes of a wait loop

\* Amounts by which the clock is advanced between two calls of the
\* calibration sequencer driven on its own: one millisecond, and one
\* millisecond less than the pulse and the stabilization period.
CalDeltas == { 1, PULSE_TIME_MS - 1, STABILIZATION_TIME_MS - 1 }

\* Time that passes between two millis() reads inside one handler.
Lags == 0 .. MaxLag

----------------------------------------------------------------------------
(* The whole program state as one record, so that the calls a handler      *)
(* makes compose as functions.                                             *)

St == [ now |-> now, elapses |-> elapses, booted |-> booted,
        currentState |-> currentState, stateStartTime |-> stateStartTime,
        lastLogTime |-> lastLogTime, hdPin |-> hdPin,
        state |-> state, fan_state |-> fan_state,
        preheat_start_time |-> preheat_start_time,
        bmp_initialized |-> bmp_initialized,
        last_bmp_reconnect_attempt |-> last_bmp_reconnect_attempt,
        fanPin |-> fanPin, deviceConnected |-> deviceConnected,
        toggleCoolerRequest |-> toggleCoolerRequest,
        calibrationCommand |-> calibrationCommand, chars |-> chars,
        wasCalibrating |-> wasCalibrating,
        lastSensorReadTime |-> lastSensorReadTime, obs |-> obs,
        ret |-> ret, packet |-> packet, pair |-> pair,
        seen |-> seen, race |-> race, uart |-> uart ]

\* The state s becomes the next state; s is computed once.
Commit(s) ==
    \E x \in { s } :
        /\ now' = x.now
        /\ elapses' = x.elapses
        /\ booted' = x.booted
        /\ currentState' = x.currentState
        /\ stateStartTime' = x.stateStartTime
        /\ lastLogTime' = x.lastLogTime
        /\ hdPin' = x.hdPin
        /\ state' = x.state
        /\ fan_state' = x.fan_state
        /\ preheat_start_time' = x.preheat_start_time
        /\ bmp_initialized' = x.bmp_initialized
        /\ last_bmp_reconnect_attempt' = x.last_bmp_reconnect_attempt
        /\ fanPin' = x.fanPin
        /\ deviceConnected' = x.deviceConnected
        /\ toggleCoolerRequest' = x.toggleCoolerRequest
        /\ calibrationCommand' = x.calibrationCommand
        /\ chars' = x.chars
        /\ wasCalibrating' = x.wasCalibrating
        /\ lastSensorReadTime' = x.lastSensorReadTime
        /\ obs' = x.obs
        /\ ret' = x.ret
        /\ packet' = x.packet
        /\ pair' = x.pair
        /\ seen' = x.seen
        /\ race' = x.race
        /\ uart' = x.uart

\* The clock moves on by d while a handler runs or between handlers.
Pass(s, d) == [s EXCEPT !.now = @ + d]

\* What the last handler did: the calls it made, in order, the frames it
\* wrote to Serial2, and the writes to HD_PIN with the class that made them.
NoObs == [ calls |-> << >>, tx |-> << >>, pins |-> << >> ]

\* Nothing returned yet, no frame under construction, no request observed.
NoRet == [ of |-> "none" ]
NoPacket == << >>
NoPair == [ n |-> 0, base |-> FALSE, st |-> "none" ]
NoSeen == [ cal |-> FALSE, shown |-> FALSE ]
NoRace == [ w |-> "idle", value |-> << >>, i |-> 0,
            pc |-> "idle", cmd |-> << >>, got |-> << >> ]
NoUart == [ buf |-> << >>, n |-> 0 ]

Begin(s) == [s EXCEPT !.obs = NoObs, !.ret = NoRet]

Log(s, call) == [s EXCEPT !.obs.calls = Append(@, call)]

\* digitalWrite(HD_PIN, level) in a method of class by.
WriteHdPin(s, by, level) ==
    [s EXCEPT !.hdPin = level,
              !.obs.pins = Append(@, [ by |-> by, level |-> level ])]

\* Serial2.write(frame, 9)
Serial2Write(s, frame) == [s EXCEPT !.obs.tx = Append(@, frame)]

Called(call) == \E i \in 1 .. Len(obs.calls) : obs.calls[i] = call

\* Position of the first call of that name in the last handler, 0 if none.
FirstCall(call) ==
    IF Called(call)
    THEN CHOOSE i \in 1 .. Len(obs.calls) :
            /\ obs.calls[i] = call
            /\ \A j \in 1 .. i - 1 : obs.calls[j] # call
    ELSE 0

----------------------------------------------------------------------------
(* CalibrationManager                                                      *)

\* CalibrationManager::CalibrationManager() and the not yet configured pin.
CalibrationManager_new ==
    [ currentState |-> "IDLE", stateStartTime |-> 0, lastLogTime |-> 0,
      hdPin |-> "UNSET" ]

\* CalibrationManager::init()
CalibrationManager_init(s) == WriteHdPin(s, "CalibrationManager", "HIGH")

\* startCalibration() without the IDLE check: every call restarts.
startCalibration_unguarded(s) ==
    LET s0 == Log(s, "startCalibration")
    IN  [s0 EXCEPT !.currentState = "STABILIZING",
                   !.stateStartTime = s0.now,
                   !.lastLogTime = s0.now]

\* startCalibration() of the revision that pulses at once.
startCalibration_pulse(s) ==
    LET s0 == Log(s, "startCalibration")
    IN  IF s0.currentState = "IDLE"
        THEN [WriteHdPin(s0, "CalibrationManager", "LOW")
                 EXCEPT !.currentState = "PULSING",
                        !.stateStartTime = s0.now]
        ELSE s0

\* startCalibration() with the IDLE check inverted.
startCalibration_inverted(s) ==
    LET s0 == Log(s, "startCalibration")
    IN  IF s0.currentState # "IDLE"
        THEN [s0 EXCEPT !.currentState = "STABILIZING",
                        !.stateStartTime = s0.now,
                        !.lastLogTime = s0.now]
        ELSE s0

\* CalibrationManager::startCalibration()
startCalibration(s) ==
    LET s0 == Log(s, "startCalibration")
    IN  IF s0.currentState = "IDLE"
        THEN [s0 EXCEPT !.currentState = "STABILIZING",
                        !.stateStartTime = s0.now,
                        !.lastLogTime = s0.now]
        ELSE s0

\* isCalibrating() that knows one busy state only.
isCalibrating_stab(s) == s.currentState = "STABILIZING"

isCalibrating_pulse(s) == s.currentState = "PULSING"

\* isCalibrating() with the comparison inverted.
isCalibrating_inverted(s) == s.currentState = "IDLE"

\* CalibrationManager::isCalibrating()
isCalibrating(s) == s.currentState # "IDLE"

\* run() that compares the stabilization time with > instead of >=.
run_strict(s, lag) ==
    LET s0 == Log(s, "run")
    IN  CASE s0.currentState = "IDLE" -> s0
          [] s0.currentState = "STABILIZING" ->
                LET elapsed == s0.now - s0.stateStartTime
                    s2 == IF s0.now - s0.lastLogTime >= LOG_PERIOD_MS
                          THEN [s0 EXCEPT !.lastLogTime = s0.now]
                          ELSE s0
                IN  IF elapsed > STABILIZATION_TIME_MS
                    THEN LET s3 == Pass(s2, lag)
                         IN  [WriteHdPin(s3, "CalibrationManager", "LOW")
                                 EXCEPT !.currentState = "PULSING",
                                        !.stateStartTime = s3.now]
                    ELSE s2
          [] s0.currentState = "PULSING" ->
                IF s0.now - s0.stateStartTime >= PULSE_TIME_MS
                THEN [WriteHdPin(s0, "CalibrationManager", "HIGH")
                        EXCEPT !.currentState = "IDLE"]
                ELSE s0

\* run() that does not restart the timer when the pulse begins.
run_nostamp(s, lag) ==
    LET s0 == Log(s, "run")
    IN  CASE s0.currentState = "IDLE" -> s0
          [] s0.currentState = "STABILIZING" ->
                LET elapsed == s0.now - s0.stateStartTime
                    s2 == IF s0.now - s0.lastLogTime >= LOG_PERIOD_MS
                          THEN [s0 EXCEPT !.lastLogTime = s0.now]
                          ELSE s0
                IN  IF elapsed >= STABILIZATION_TIME_MS
                    THEN [WriteHdPin(s2, "CalibrationManager", "LOW")
                             EXCEPT !.currentState = "PULSING"]
                    ELSE s2
          [] s0.currentState = "PULSING" ->
                IF s0.now - s0.stateStartTime >= PULSE_TIME_MS
                THEN [WriteHdPin(s0, "CalibrationManager", "HIGH")
                        EXCEPT !.currentState = "IDLE"]
                ELSE s0

\* run() that ends the pulse without driving HD_PIN high again.
run_nohigh(s, lag) ==
    LET s0 == Log(s, "run")
    IN  CASE s0.currentState = "IDLE" -> s0
          [] s0.currentState = "STABILIZING" ->
                LET elapsed == s0.now - s0.stateStartTime
                    s2 == IF s0.now - s0.lastLogTime >= LOG_PERIOD_MS
                          THEN [s0 EXCEPT !.lastLogTime = s0.now]
                          ELSE s0
                IN  IF elapsed >= STABILIZATION_TIME_MS
                    THEN LET s3 == Pass(s2, lag)
                         IN  [WriteHdPin(s3, "CalibrationManager", "LOW")
                                 EXCEPT !.currentState = "PULSING",
                                        !.stateStartTime = s3.now]
                    ELSE s2
          [] s0.currentState = "PULSING" ->
                IF s0.now - s0.stateStartTime >= PULSE_TIME_MS
                THEN [s0 EXCEPT !.currentState = "IDLE"]
                ELSE s0

\* run() that drives HD_PIN high when the pulse is over and stays PULSING.
run_stuck(s, lag) ==
    LET s0 == Log(s, "run")
    IN  CASE s0.currentState = "IDLE" -> s0
          [] s0.currentState = "STABILIZING" ->
                LET elapsed == s0.now - s0.stateStartTime
                    s2 == IF s0.now - s0.lastLogTime >= LOG_PERIOD_MS
                          THEN [s0 EXCEPT !.lastLogTime = s0.now]
                          ELSE s0
                IN  IF elapsed >= STABILIZATION_TIME_MS
                    THEN LET s3 == Pass(s2, lag)
                         IN  [WriteHdPin(s3, "CalibrationManager", "LOW")
                                 EXCEPT !.currentState = "PULSING",
                                        !.stateStartTime = s3.now]
                    ELSE s2
          [] s0.currentState = "PULSING" ->
                IF s0.now - s0.stateStartTime >= PULSE_TIME_MS
                THEN WriteHdPin(s0, "CalibrationManager", "HIGH")
                ELSE s0

\* CalibrationManager::run(); lag is the time between the millis() read
\* that computes elapsed and the one that sets the new stateStartTime.
run(s, lag) ==
    LET s0 == Log(s, "run")
    IN  CASE s0.currentState = "IDLE" -> s0
          [] s0.currentState = "STABILIZING" ->
                LET elapsed == s0.now - s0.stateStartTime
                    s2 == IF s0.now - s0.lastLogTime >= LOG_PERIOD_MS
                          THEN [s0 EXCEPT !.lastLogTime = s0.now]
                          ELSE s0
                IN  IF elapsed >= STABILIZATION_TIME_MS
                    THEN LET s3 == Pass(s2, lag)
                         IN  [WriteHdPin(s3, "CalibrationManager", "LOW")
                                 EXCEPT !.currentState = "PULSING",
                                        !.stateStartTime = s3.now]
                    ELSE s2
          [] s0.currentState = "PULSING" ->
                IF s0.now - s0.stateStartTime >= PULSE_TIME_MS
                THEN [WriteHdPin(s0, "CalibrationManager", "HIGH")
                        EXCEPT !.currentState = "IDLE"]
                ELSE s0

\* Whether run() reads millis() a second time in state s.
RunLags(s) ==
    IF /\ s.currentState = "STABILIZING"
       /\ s.now - s.stateStartTime >= STABILIZATION_TIME_MS
    THEN Lags
    ELSE {0}

----------------------------------------------------------------------------
(* SensorManager                                                           *)

\* A float is held in hundredths.  A DHT read is a float or NaN, the value
\* the driver returns for a failed read.
NaN == [ nan |-> TRUE, v |-> 0 ]
Float(h) == [ nan |-> FALSE, v |-> h ]
isnan(x) == x.nan

\* A byte keeps the low 8 bits of what is assigned to it.
Byte(n) == n % 256

\* The for loop of calculateChecksum from index i on: checksum += packet[i]
\* (C index i is element i + 1 of the sequence).
RECURSIVE ChecksumLoop(_, _, _)
ChecksumLoop(pkt, i, checksum) ==
    IF i < 8
    THEN ChecksumLoop(pkt, i + 1, Byte(checksum + pkt[i + 1]))
    ELSE checksum

\* calculateChecksum() whose loop starts at index 0.
calculateChecksum_fromzero(pkt) ==
    LET c1 == ChecksumLoop(pkt, 0, 0)
        c2 == Byte(255 - c1)
    IN  Byte(c2 + 1)

\* calculateChecksum() without the final increment.
calculateChecksum_noinc(pkt) ==
    LET c1 == ChecksumLoop(pkt, 1, 0)
    IN  Byte(255 - c1)

\* calculateChecksum() whose loop stops one byte early (i < 7).
calculateChecksum_short(pkt) ==
    LET c1 == Byte(ChecksumLoop(pkt, 1, 0) + 256 - pkt[8])
        c2 == Byte(255 - c1)
    IN  Byte(c2 + 1)

\* calculateChecksum(byte *packet)
calculateChecksum(pkt) ==
    LET c1 == ChecksumLoop(pkt, 1, 0)
        c2 == Byte(255 - c1)
    IN  Byte(c2 + 1)

\* The command frames of the MH-Z19C as the code spells them.
cmd_disable_autocal == << 255, 1, 121, 0, 0, 0, 0, 0, 0 >>
cmd == << 255, 1, 134, 0, 0, 0, 0, 0, 121 >>

\* SensorManager::SensorManager() and the not yet configured fan pin.
SensorManager_new ==
    [ bmp_initialized |-> FALSE, last_bmp_reconnect_attempt |-> 0,
      preheat_start_time |-> 0, state |-> "PREHEATING", fan_state |-> FALSE,
      fanPin |-> "UNSET" ]

\* SensorManager::init(); bmpFound is the result of bmp.begin(0x76).
SensorManager_init(s, bmpFound) ==
    [Serial2Write(WriteHdPin(s, "SensorManager", "HIGH"),
                  [cmd_disable_autocal EXCEPT
                      ![9] = calculateChecksum(cmd_disable_autocal)])
       EXCEPT !.preheat_start_time = s.now,
              !.fanPin = "LOW",
              !.fan_state = FALSE,
              !.bmp_initialized = bmpFound]

\* setFanState() whose off branch leaves the pin as it is.
setFanState_flagonly(s, on) ==
    IF on THEN [Log(s, "setFanState(true)") EXCEPT
                   !.fanPin = "HIGH", !.fan_state = TRUE]
          ELSE [Log(s, "setFanState(false)") EXCEPT
                   !.fan_state = FALSE]

\* setFanState() that drives HD_PIN where it should drive FAN_PIN.
setFanState_hdpin(s, on) ==
    IF on THEN [WriteHdPin(Log(s, "setFanState(true)"), "SensorManager",
                           "HIGH") EXCEPT !.fan_state = TRUE]
          ELSE [WriteHdPin(Log(s, "setFanState(false)"), "SensorManager",
                           "LOW") EXCEPT !.fan_state = FALSE]

\* SensorManager::setFanState(bool on)
setFanState(s, on) ==
    IF on THEN [Log(s, "setFanState(true)") EXCEPT
                   !.fanPin = "HIGH", !.fan_state = TRUE]
          ELSE [Log(s, "setFanState(false)") EXCEPT
                   !.fanPin = "LOW", !.fan_state = FALSE]

\* SensorManager::getFanState()
getFanState(s) == s.fan_state

\* SensorManager::getState()
getState(s) == s.state

\* SensorManager::setSystemState(): the mutator of section 4.3.
setSystemState(s, v) ==
    [Log(s, "setSystemState(" \o v \o ")") EXCEPT !.state = v]

\* a | b on non-negative ints, bit by bit.
RECURSIVE BitOr(_, _)
BitOr(a, b) ==
    IF a = 0 THEN b
    ELSE IF b = 0 THEN a
    ELSE 2 * BitOr(a \div 2, b \div 2)
           + (IF a % 2 = 1 \/ b % 2 = 1 THEN 1 ELSE 0)

\* a << 8 on an int that holds a byte.
ShiftLeft8(a) == a * 256

\* What the byte stream delivers to one readCO2() call: rx.bytes are the
\* first four bytes of the 9 it delivers (none if it never delivers 9),
\* rx.at the time after the request at which the ninth is available, and
\* rx.every the time from one pass of the wait loop to the next.
Timeout == << >>
IsFrame(rx) == Len(rx.bytes) = 4
Rx(bytes, at, every) == [ bytes |-> bytes, at |-> at, every |-> every ]

\* Serial2.available() >= 9, t after the request.
Available9(rx, t) == IsFrame(rx) /\ rx.at <= t

\* The wait loop that gives up far too late.
WaitResponse_late(rx) ==
    LET limit == 10 * CO2_TIMEOUT_MS
        Exits(k) == Available9(rx, k * rx.every) \/ k * rx.every > limit
        last == CHOOSE k \in 0 .. (limit \div rx.every) + 1 :
                   Exits(k) /\ (k > 0 => ~Exits(k - 1))
    IN  [ t |-> last * rx.every,
          timeout |-> ~Available9(rx, last * rx.every) ]

\* The wait loop of readCO2().  Pass k of the loop runs k * rx.every after
\* the request; it leaves the loop if 9 bytes are available, and else
\* returns with a timeout if more than 150 ms have gone by.  The loop ends
\* at the first pass that does either, which is the pass whose
\* predecessor did neither; t is the time from the request to that pass.
WaitResponse(rx) ==
    LET Exits(k) == Available9(rx, k * rx.every)
                       \/ k * rx.every > CO2_TIMEOUT_MS
        last == CHOOSE k \in 0 .. (CO2_TIMEOUT_MS \div rx.every) + 1 :
                   Exits(k) /\ (k > 0 => ~Exits(k - 1))
    IN  [ t |-> last * rx.every,
          timeout |-> ~Available9(rx, last * rx.every) ]

\* readCO2() that ends the preheat without turning the fan on.
readCO2_nofan(s, rx) ==
    LET s0 == Log(s, "readCO2")
        s1 == IF /\ s0.state = "PREHEATING"
                 /\ s0.now - s0.preheat_start_time > PREHEAT_TIME_MS
              THEN [s0 EXCEPT !.state = "READY"]
              ELSE s0
        w == WaitResponse(rx)
        s2 == Pass(Serial2Write(s1, cmd), w.t)
    IN  IF w.timeout
        THEN [ st |-> s2, co2 |-> -1 ]
        ELSE IF rx.bytes[1] = 255 /\ rx.bytes[2] = 134
             THEN [ st |-> s2,
                    co2 |-> BitOr(ShiftLeft8(rx.bytes[3]), rx.bytes[4]) ]
             ELSE [ st |-> s2, co2 |-> -1 ]

\* readCO2() that warms the sensor up again after a read that failed.
readCO2_rewarm(s, rx) ==
    LET s0 == Log(s, "readCO2")
        s1 == IF /\ s0.state = "PREHEATING"
                 /\ s0.now - s0.preheat_start_time > PREHEAT_TIME_MS
              THEN [setFanState(s0, TRUE) EXCEPT !.state = "READY"]
              ELSE s0
        w == WaitResponse(rx)
        s2 == Pass(Serial2Write(s1, cmd), w.t)
    IN  IF w.timeout
        THEN [ st |-> [s2 EXCEPT !.state = "PREHEATING",
                                 !.preheat_start_time = s2.now],
               co2 |-> -1 ]
        ELSE IF rx.bytes[1] = 255 /\ rx.bytes[2] = 134
             THEN [ st |-> s2,
                    co2 |-> BitOr(ShiftLeft8(rx.bytes[3]), rx.bytes[4]) ]
             ELSE [ st |-> s2, co2 |-> -1 ]

\* readCO2() that accepts a frame when either header byte is right.
readCO2_anyheader(s, rx) ==
    LET s0 == Log(s, "readCO2")
        s1 == IF /\ s0.state = "PREHEATING"
                 /\ s0.now - s0.preheat_start_time > PREHEAT_TIME_MS
              THEN [setFanState(s0, TRUE) EXCEPT !.state = "READY"]
              ELSE s0
        w == WaitResponse(rx)
        s2 == Pass(Serial2Write(s1, cmd), w.t)
    IN  IF w.timeout
        THEN [ st |-> s2, co2 |-> -1 ]
        ELSE IF rx.bytes[1] = 255 \/ rx.bytes[2] = 134
             THEN [ st |-> s2,
                    co2 |-> BitOr(ShiftLeft8(rx.bytes[3]), rx.bytes[4]) ]
             ELSE [ st |-> s2, co2 |-> -1 ]

\* SensorManager::readCO2(): the new state and the value returned.
readCO2(s, rx) ==
    LET s0 == Log(s, "readCO2")
        s1 == IF /\ s0.state = "PREHEATING"
                 /\ s0.now - s0.preheat_start_time > PREHEAT_TIME_MS
              THEN [setFanState(s0, TRUE) EXCEPT !.state = "READY"]
              ELSE s0
        w == WaitResponse(rx)
        s2 == Pass(Serial2Write(s1, cmd), w.t)
    IN  IF w.timeout
        THEN [ st |-> s2, co2 |-> -1 ]
        ELSE IF rx.bytes[1] = 255 /\ rx.bytes[2] = 134
             THEN [ st |-> s2,
                    co2 |-> BitOr(ShiftLeft8(rx.bytes[3]), rx.bytes[4]) ]
             ELSE [ st |-> s2, co2 |-> -1 ]

\* readAllSensors() that retries the BMP280 on every call.
readAllSensors_eager(s, in) ==
    LET dhtBad == isnan(in.hum) \/ isnan(in.temp)
        hum  == IF dhtBad THEN -100 ELSE in.hum.v
        temp == IF dhtBad THEN -100 ELSE in.temp.v
        retry == ~s.bmp_initialized
        \* Pa / 100.0F in hPa is, in hundredths of hPa, the number of Pa
        pres == IF s.bmp_initialized THEN in.pres ELSE -100
        s0 == Log(s, "readAllSensors")
        s1 == IF retry
              THEN [Log(s0, "bmp.begin") EXCEPT
                       !.last_bmp_reconnect_attempt = s0.now,
                       !.bmp_initialized = in.bmpFound]
              ELSE s0
        r == readCO2(s1, in.rx)
    IN  [ st |-> r.st,
          data |-> [ temperature |-> temp, humidity |-> hum,
                     pressure |-> pres, co2 |-> r.co2 ] ]

\* SensorManager::readAllSensors(); in.hum and in.temp are the DHT reads,
\* in.pres the BMP280 pressure in Pa, in.bmpFound the result of a
\* bmp.begin(0x76) retry, in.rx the CO2 byte stream.
readAllSensors(s, in) ==
    LET dhtBad == isnan(in.hum) \/ isnan(in.temp)
        hum  == IF dhtBad THEN -100 ELSE in.hum.v
        temp == IF dhtBad THEN -100 ELSE in.temp.v
        retry == /\ ~s.bmp_initialized
                 /\ s.now - s.last_bmp_reconnect_attempt > BMP_RETRY_MS
        \* Pa / 100.0F in hPa is, in hundredths of hPa, the number of Pa
        pres == IF s.bmp_initialized THEN in.pres ELSE -100
        s0 == Log(s, "readAllSensors")
        s1 == IF retry
              THEN [Log(s0, "bmp.begin") EXCEPT
                       !.last_bmp_reconnect_attempt = s0.now,
                       !.bmp_initialized = in.bmpFound]
              ELSE s0
        r == readCO2(s1, in.rx)
    IN  [ st |-> r.st,
          data |-> [ temperature |-> temp, humidity |-> hum,
                     pressure |-> pres, co2 |-> r.co2 ] ]

----------------------------------------------------------------------------
(* BLEManager                                                              *)

\* Arduino String(float, 2) and String(int), on values held in hundredths
\* and in units.
Abs(n) == IF n < 0 THEN -n ELSE n

StringFloat2(h) ==
    (IF h < 0 THEN "-" ELSE "") \o ToString(Abs(h) \div 100) \o "."
        \o ToString((Abs(h) % 100) \div 10) \o ToString(Abs(h) % 10)

StringInt(n) == ToString(n)

\* A command is the sequence of the characters written.
START_CAL == << "S", "T", "A", "R", "T", "_", "C", "A", "L" >>
Empty == << >>

\* BLEManager::BLEManager(): no characteristic exists yet.
BLEManager_new ==
    [ temp |-> "null", pres |-> "null", hum |-> "null", co2 |-> "null",
      calibrate |-> "null", systemState |-> "null", coolerState |-> "null" ]

\* BLEManager::init(): the characteristics and their initial values.
BLEManager_init(s) ==
    [s EXCEPT !.chars = [ temp |-> "", pres |-> "", hum |-> "", co2 |-> "",
                          calibrate |-> "READY",
                          systemState |-> "PREHEATING",
                          coolerState |-> "OFF" ]]

\* MyServerCallbacks::onConnect
onConnect(s) == [s EXCEPT !.deviceConnected = TRUE]

\* MyServerCallbacks::onDisconnect
onDisconnect(s) == [s EXCEPT !.deviceConnected = FALSE]

\* MyCharacteristicCallbacks::onWrite, run to completion; value is what
\* the client wrote.
RECURSIVE AppendAll(_, _, _)
AppendAll(str, value, i) ==
    IF i > Len(value) THEN str
    ELSE AppendAll(Append(str, value[i]), value, i + 1)

\* onWrite() that clears the previous command before looking at the
\* length of the value.
CalibrateOnWrite_clearfirst(s, value) ==
    IF Len(value) > 0
    THEN [s EXCEPT !.calibrationCommand = AppendAll(Empty, value, 1)]
    ELSE [s EXCEPT !.calibrationCommand = Empty]

CalibrateOnWrite(s, value) ==
    IF Len(value) > 0
    THEN [s EXCEPT !.calibrationCommand = AppendAll(Empty, value, 1)]
    ELSE s

\* CoolerCharacteristicCallbacks::onWrite
CoolerOnWrite(s) == [s EXCEPT !.toggleCoolerRequest = TRUE]

\* updateSensorValues() that does not ask whether a peer is connected.
updateSensorValues_always(s, temp, hum, pres, co2, systemStatus, coolerStatus) ==
    [Log(s, "updateSensorValues") EXCEPT
        !.chars = [@ EXCEPT !.temp = StringFloat2(temp),
                            !.pres = StringFloat2(pres),
                            !.hum = StringFloat2(hum),
                            !.co2 = StringInt(co2),
                            !.systemState = systemStatus,
                            !.coolerState = coolerStatus]]

\* BLEManager::updateSensorValues
updateSensorValues(s, temp, hum, pres, co2, systemStatus, coolerStatus) ==
    IF s.deviceConnected
    THEN [Log(s, "updateSensorValues") EXCEPT !.chars = [@ EXCEPT !.temp = StringFloat2(temp),
                                       !.pres = StringFloat2(pres),
                                       !.hum = StringFloat2(hum),
                                       !.co2 = StringInt(co2),
                                       !.systemState = systemStatus,
                                       !.coolerState = coolerStatus]]
    ELSE s

\* BLEManager::isDeviceConnected
isDeviceConnected(s) == s.deviceConnected

\* getCalibrationCommand() that returns the command and keeps it.
getCalibrationCommand_keep(s) ==
    LET s0 == Log(s, "getCalibrationCommand")
    IN  [ st |-> s0, cmd |-> s0.calibrationCommand ]

\* BLEManager::getCalibrationCommand: the new state and the value returned.
getCalibrationCommand(s) ==
    LET s0 == Log(s, "getCalibrationCommand")
    IN  IF s0.calibrationCommand # Empty
        THEN [ st |-> [s0 EXCEPT !.calibrationCommand = Empty],
               cmd |-> s0.calibrationCommand ]
        ELSE [ st |-> s0, cmd |-> Empty ]

----------------------------------------------------------------------------
(* The sketch: setup() and loop() of section 4.5.                          *)

\* Labels pushed with a telemetry snapshot.
StateLabel(v) == v
FanLabel(on) == IF on THEN "ON" ELSE "OFF"

\* setup(): the three init() calls.
setup(s, bmpFound) ==
    LET s1 == SensorManager_init(s, bmpFound)
        s2 == CalibrationManager_init(s1)
        s3 == BLEManager_init(s2)
    IN  [s3 EXCEPT !.booted = TRUE]

\* Step 1: command intake.
loopCommand(s) ==
    LET r == getCalibrationCommand(s)
    IN  IF r.cmd = START_CAL
        THEN setSystemState(startCalibration(r.st), "CALIBRATING")
        ELSE r.st

\* Step 3: the calibration-active edge.
loopEdge(s) ==
    LET calibratingNow == isCalibrating(s)
        s1 == IF s.wasCalibrating /\ ~calibratingNow
              THEN setSystemState(s, "READY")
              ELSE s
    IN  [s1 EXCEPT !.wasCalibrating = calibratingNow]

\* Step 4: the fan toggle request.
loopFan(s) ==
    IF s.toggleCoolerRequest
    THEN [setFanState(s, ~getFanState(s)) EXCEPT !.toggleCoolerRequest = FALSE]
    ELSE s

\* Whether step 5 runs a sensing cycle in state s.
SenseDue(s) ==
    /\ ~isCalibrating(s)
    /\ s.now - s.lastSensorReadTime >= SENSOR_READ_INTERVAL

\* Step 5: the sensing cycle and the telemetry push.
loopSense(s, in) ==
    IF SenseDue(s)
    THEN LET r == readAllSensors([s EXCEPT !.lastSensorReadTime = s.now], in)
             d == r.data
         IN  IF isDeviceConnected(r.st)
             THEN updateSensorValues(r.st, d.temperature, d.humidity,
                                     d.pressure, d.co2,
                                     StateLabel(getState(r.st)),
                                     FanLabel(getFanState(r.st)))
             ELSE r.st
    ELSE s

\* One pass of loop(): steps 1 to 5 in order.
loop(s, lag, in) ==
    LET s1 == loopCommand(s)
        s2 == run(s1, lag)
        s3 == loopEdge(s2)
        s4 == loopFan(s3)
    IN  loopSense(s4, in)

----------------------------------------------------------------------------
(* Initial state: every object constructed, no init() called yet.          *)

Init ==
    /\ now = BootTime
    /\ elapses = 0
    /\ booted = FALSE
    /\ currentState = CalibrationManager_new.currentState
    /\ stateStartTime = CalibrationManager_new.stateStartTime
    /\ lastLogTime = CalibrationManager_new.lastLogTime
    /\ hdPin = CalibrationManager_new.hdPin
    /\ state = SensorManager_new.state
    /\ fan_state = SensorManager_new.fan_state
    /\ preheat_start_time = SensorManager_new.preheat_start_time
    /\ bmp_initialized = SensorManager_new.bmp_initialized
    /\ last_bmp_reconnect_attempt = SensorManager_new.last_bmp_reconnect_attempt
    /\ fanPin = SensorManager_new.fanPin
    /\ deviceConnected = FALSE
    /\ toggleCoolerRequest = FALSE
    /\ calibrationCommand = << >>
    /\ chars = BLEManager_new
    /\ wasCalibrating = FALSE
    /\ lastSensorReadTime = 0
    /\ obs = NoObs
    /\ ret = NoRet
    /\ packet = NoPacket
    /\ pair = NoPair
    /\ seen = NoSeen
    /\ race = NoRace
    /\ uart = NoUart

\* setup() runs once; the BMP280 is found or not.
Setup ==
    /\ ~booted
    /\ \E bmpFound \in BOOLEAN : Commit(setup(Begin(St), bmpFound))

\* What the sensors deliver to one sensing cycle.
SenseInputs ==
    { [ hum |-> Float(4000), temp |-> Float(2350), pres |-> 101325,
        bmpFound |-> TRUE, rx |-> Rx(<< 255, 134, 1, 144 >>, 0, 1) ],
      [ hum |-> Float(4000), temp |-> NaN, pres |-> 101325,
        bmpFound |-> FALSE, rx |-> Rx(<< 255, 135, 1, 144 >>, 0, 1) ],
      [ hum |-> NaN, temp |-> NaN, pres |-> 101325,
        bmpFound |-> FALSE, rx |-> Rx(Timeout, 0, 1) ] }

\* The inputs one pass of loop() can read in state s.
LoopInputs(s) ==
    IF SenseDue(loopFan(loopEdge(run(loopCommand(s), 0))))
    THEN SenseInputs
    ELSE { CHOOSE in \in SenseInputs : TRUE }

\* The instants at which a running timer of the program expires: the
\* preheat, the stabilization and the pulse.
Deadlines(s) ==
    (IF s.state = "PREHEATING"
     THEN { s.preheat_start_time + PREHEAT_TIME_MS } ELSE {})
    \cup (IF s.currentState = "STABILIZING"
          THEN { s.stateStartTime + STABILIZATION_TIME_MS } ELSE {})
    \cup (IF s.currentState = "PULSING"
          THEN { s.stateStartTime + PULSE_TIME_MS } ELSE {})

\* The clock values at which the next pass of loop() may run: the present
\* one, and the millisecond before, at and after each deadline.  Between
\* them no timer comparison of these three changes its value.
PassTimes(s) ==
    { s.now } \cup
    { t \in UNION { { D - 1, D, D + 1 } : D \in Deadlines(s) } :
        t > s.now /\ t <= MaxTime }

\* One pass of loop(), some time after the previous handler.
Loop ==
    /\ booted
    /\ \E t \in PassTimes(St) :
          LET s == Pass(Begin(St), t - now)
          IN  \E lag \in RunLags(loopCommand(s)) :
                \E in \in LoopInputs(Pass(s, lag)) :
                    Commit(loop(s, lag, in))

\* The transport's callbacks.
Connect ==
    /\ booted
    /\ ~deviceConnected
    /\ Commit(onConnect(Begin(St)))

Disconnect ==
    /\ booted
    /\ deviceConnected
    /\ Commit(onDisconnect(Begin(St)))

\* Values a client writes to the calibration characteristic.
Written == { START_CAL, << "S", "T", "O", "P" >>, Empty }

WriteCommand ==
    /\ booted
    /\ deviceConnected
    /\ \E value \in Written :
          Commit(CalibrateOnWrite(Begin(St), value))

WriteCooler ==
    /\ booted
    /\ deviceConnected
    /\ Commit(CoolerOnWrite(Begin(St)))

Next ==
    \/ Setup
    \/ Loop
    \/ Connect
    \/ Disconnect
    \/ WriteCommand
    \/ WriteCooler

Spec == Init /\ [][Next]_vars

\* The node with a client that connects, disconnects and writes commands
\* but never asks for a fan toggle, and a record of what the client is
\* shown during a calibration: seen.cal says that a calibration is running
\* and a peer has been connected since the pass that started it, seen.shown
\* that the system-state characteristic has read "CALIBRATING" since then.
Watch(s, s2) ==
    IF s2.currentState = "IDLE" THEN NoSeen
    ELSE IF s.currentState = "IDLE"
         THEN [ cal |-> s2.deviceConnected,
                shown |-> s2.chars.systemState = "CALIBRATING" ]
         ELSE [ cal |-> s.seen.cal /\ s2.deviceConnected,
                shown |-> s.seen.shown
                          \/ s2.chars.systemState = "CALIBRATING" ]

Watched(s2) == [s2 EXCEPT !.seen = Watch(St, s2)]

TeleLoop ==
    /\ booted
    /\ \E t \in PassTimes(St) :
          LET s == Pass(Begin(St), t - now)
          IN  \E lag \in RunLags(loopCommand(s)) :
                \E in \in LoopInputs(Pass(s, lag)) :
                    Commit(Watched(loop(s, lag, in)))

TeleDisconnect ==
    /\ booted
    /\ deviceConnected
    /\ Commit(Watched(onDisconnect(Begin(St))))

TeleNext ==
    \/ Setup
    \/ TeleLoop
    \/ Connect
    \/ TeleDisconnect
    \/ WriteCommand

SpecTele == Init /\ [][TeleNext]_vars

----------------------------------------------------------------------------
(* The node with a client that only asks for fan toggles, two at a time.   *)
(* pair counts the requests of the current pair and keeps the fan state    *)
(* and the ReadinessState found by the first of them.                      *)

CoolerRequest ==
    /\ booted
    /\ deviceConnected
    /\ pair.n = 2 => ~toggleCoolerRequest
    /\ Commit([CoolerOnWrite(Begin(St)) EXCEPT
                  !.pair = IF pair.n = 1
                           THEN [pair EXCEPT !.n = 2]
                           ELSE [ n |-> 1, base |-> fan_state,
                                  st |-> state ]])

FanNext ==
    \/ Setup
    \/ Loop
    \/ Connect
    \/ Disconnect
    \/ CoolerRequest

SpecFan == Init /\ [][FanNext]_vars

----------------------------------------------------------------------------
(* The BLEManager driven on its own: init() once, then the transport's     *)
(* callbacks and the calls the sketch makes, in any order.  A callback     *)
(* runs to completion before the next call.                                *)

\* Snapshots pushed to updateSensorValues(): floats in hundredths.
Snapshots ==
    { [ temp |-> 2350, hum |-> 4000, pres |-> 101325, co2 |-> 400,
        systemStatus |-> "READY", coolerStatus |-> "ON" ],
      [ temp |-> -100, hum |-> -100, pres |-> -100, co2 |-> -1,
        systemStatus |-> "PREHEATING", coolerStatus |-> "OFF" ],
      [ temp |-> -550, hum |-> 9905, pres |-> 98007, co2 |-> 5000,
        systemStatus |-> "CALIBRATING", coolerStatus |-> "ON" ] }

BleInit ==
    /\ ~booted
    /\ Commit([BLEManager_init(Begin(St)) EXCEPT !.booted = TRUE])

\* The stack reports a connection or a disconnection, whatever the flag
\* says at that moment.
BleConnect ==
    /\ booted
    /\ Commit([onConnect(Begin(St)) EXCEPT !.ret = [ of |-> "onConnect" ]])

BleDisconnect ==
    /\ booted
    /\ Commit([onDisconnect(Begin(St)) EXCEPT
                  !.ret = [ of |-> "onDisconnect" ]])

BleWrite ==
    /\ booted
    /\ deviceConnected
    /\ \E value \in Written :
          Commit([CalibrateOnWrite(Begin(St), value) EXCEPT
                     !.ret = [ of |-> "onWrite", value |-> value ]])

BlePoll ==
    /\ booted
    /\ LET r == getCalibrationCommand(Begin(St))
       IN  Commit([r.st EXCEPT
                      !.ret = [ of |-> "getCalibrationCommand",
                                v |-> r.cmd ]])

BlePush ==
    /\ booted
    /\ \E d \in Snapshots :
          Commit([updateSensorValues(Begin(St), d.temp, d.hum, d.pres,
                                     d.co2, d.systemStatus, d.coolerStatus)
                    EXCEPT !.ret = [ of |-> "updateSensorValues",
                                     connected |-> isDeviceConnected(St),
                                     d |-> d ]])

BleNext ==
    \/ BleInit
    \/ BleConnect
    \/ BleDisconnect
    \/ BleWrite
    \/ WriteCooler
    \/ BlePoll
    \/ BlePush

SpecBLE == Init /\ [][BleNext]_vars

\* One write of START_CAL by the client, handled by onWrite() in the task
\* of the BLE stack, while loop() calls getCalibrationCommand() in its own
\* task: the statements of the two interleave.  race.w and race.i are the
\* position of onWrite(), race.pc and race.cmd the position and the local
\* copy of getCalibrationCommand(), race.got the non-empty strings it has
\* returned.
RaceWriteBegin ==
    /\ booted
    /\ deviceConnected
    /\ race.w = "idle"
    /\ Commit([Begin(St) EXCEPT
                  !.calibrationCommand = Empty,
                  !.race = [@ EXCEPT !.w = "append", !.value = START_CAL,
                                     !.i = 0]])

RaceWriteChar ==
    /\ race.w = "append"
    /\ Commit([Begin(St) EXCEPT
                  !.calibrationCommand = Append(@, race.value[race.i + 1]),
                  !.race = [@ EXCEPT
                               !.i = @ + 1,
                               !.w = IF race.i + 1 = Len(race.value)
                                     THEN "done" ELSE "append"]])

RacePollTest ==
    /\ booted
    /\ race.pc = "idle"
    /\ IF calibrationCommand # Empty
       THEN Commit([Begin(St) EXCEPT !.race = [@ EXCEPT !.pc = "copy"]])
       ELSE Commit([Begin(St) EXCEPT
                      !.ret = [ of |-> "getCalibrationCommand",
                                v |-> Empty ]])

RacePollCopy ==
    /\ race.pc = "copy"
    /\ Commit([Begin(St) EXCEPT
                  !.race = [@ EXCEPT !.pc = "clear",
                                     !.cmd = calibrationCommand]])

RacePollClear ==
    /\ race.pc = "clear"
    /\ Commit([Begin(St) EXCEPT
                  !.calibrationCommand = Empty,
                  !.ret = [ of |-> "getCalibrationCommand",
                            v |-> race.cmd ],
                  !.race = [@ EXCEPT !.pc = "idle", !.cmd = << >>,
                                     !.got = Append(@, race.cmd)]])

RaceNext ==
    \/ BleInit
    \/ BleConnect
    \/ RaceWriteBegin
    \/ RaceWriteChar
    \/ RacePollTest
    \/ RacePollCopy
    \/ RacePollClear

SpecRace == Init /\ [][RaceNext]_vars

----------------------------------------------------------------------------
(* The calibration sequencer driven on its own: init() once, then          *)
(* startCalibration() and run() in any order at any clock value.           *)

CalInit ==
    /\ ~booted
    /\ Commit([CalibrationManager_init(Begin(St)) EXCEPT
                  !.booted = TRUE])

CalStart ==
    /\ booted
    /\ Commit(startCalibration(Begin(St)))

CalRun ==
    /\ booted
    /\ \E lag \in RunLags(St) : Commit(run(Begin(St), lag))

CalElapse ==
    /\ booted
    /\ elapses < MaxElapses
    /\ \E d \in CalDeltas :
          Commit([Pass(Begin(St), d) EXCEPT !.elapses = @ + 1])

CalNext == CalInit \/ CalStart \/ CalRun \/ CalElapse

SpecCal == Init /\ [][CalNext]_vars

\* The sequencer with run() called again and again and a clock that keeps
\* advancing: while a timer runs the clock moves on to the millisecond
\* before its deadline, to the deadline and to the millisecond after it;
\* while the sequencer is IDLE it ticks, and calibrations start in the
\* first MaxElapses milliseconds after boot.
CalDeadline ==
    stateStartTime + (IF currentState = "STABILIZING"
                      THEN STABILIZATION_TIME_MS ELSE PULSE_TIME_MS)

CalAdvance ==
    /\ booted
    /\ \E t \in IF currentState = "IDLE"
                THEN { now + 1 }
                ELSE { CalDeadline - 1, CalDeadline, CalDeadline + 1 } :
          /\ t > now
          /\ currentState = "IDLE" => t <= BootTime + MaxElapses
          /\ Commit(Pass(Begin(St), t - now))

CalStartEarly ==
    /\ currentState = "IDLE" => now <= BootTime + MaxElapses
    /\ CalStart

CalLiveNext == CalInit \/ CalStartEarly \/ CalRun \/ CalAdvance

SpecCalLive ==
    /\ Init
    /\ [][CalLiveNext]_vars
    /\ WF_vars(CalRun)
    /\ WF_vars(CalAdvance)

----------------------------------------------------------------------------
(* The SensorManager driven on its own: init() once, then readAllSensors(), *)
(* setFanState() and getFanState() in any order at any clock value.        *)

\* Amounts by which the clock is advanced between two calls: one
\* millisecond, and one millisecond less than the BMP280 retry period and
\* the preheat.
SensDeltas == { 1, BMP_RETRY_MS - 1, PREHEAT_TIME_MS - 1 }

\* What the sensors deliver to one sensing cycle: a good cycle, and cycles
\* that differ from it in the CO2 frame, in the time at which the frame
\* is complete, in the DHT22 reads, or in the BMP280 answering.
GoodFrame == << 255, 134, 1, 144 >>
GoodCycle ==
    [ hum |-> Float(4000), temp |-> Float(2350), pres |-> 101325,
      bmpFound |-> FALSE, rx |-> Rx(GoodFrame, 0, 1) ]

Frames ==
    { GoodFrame, << 255, 134, 0, 0 >>, << 255, 134, 255, 255 >>,
      << 254, 134, 1, 144 >>, << 255, 135, 1, 144 >>, << 134, 255, 1, 144 >> }

Arrivals ==
    { CO2_TIMEOUT_MS - 1, CO2_TIMEOUT_MS, CO2_TIMEOUT_MS + 1,
      CO2_TIMEOUT_MS + MaxPollGap, CO2_TIMEOUT_MS + MaxPollGap + 1 }

\* The cycles of the SensorManager driven on its own.
UnitInputs ==
    { GoodCycle, [GoodCycle EXCEPT !.rx = Rx(Timeout, 0, 1)],
      [GoodCycle EXCEPT !.hum = NaN], [GoodCycle EXCEPT !.temp = NaN],
      [GoodCycle EXCEPT !.hum = NaN, !.temp = NaN],
      [GoodCycle EXCEPT !.bmpFound = TRUE] }

\* The cycles of the CO2 exchange driven on its own.
ExchangeInputs ==
    { [GoodCycle EXCEPT !.rx = Rx(f, 0, 1)] : f \in Frames }
    \cup { [GoodCycle EXCEPT !.rx = Rx(GoodFrame, a, p)] :
              a \in Arrivals, p \in 1 .. MaxPollGap }
    \cup { [GoodCycle EXCEPT !.rx = Rx(Timeout, 0, p)] : p \in 1 .. MaxPollGap }

SensInit ==
    /\ ~booted
    /\ \E bmpFound \in BOOLEAN :
          Commit([SensorManager_init(Begin(St), bmpFound) EXCEPT
                     !.booted = TRUE])

\* A sensing cycle; one that waits for the CO2 sensor advances the clock.
SensRead ==
    /\ booted
    /\ \E in \in UnitInputs :
          LET r == readAllSensors(Begin(St), in)
              waited == r.st.now > now
          IN  /\ waited => elapses < MaxSensElapses
              /\ Commit([r.st EXCEPT
                            !.elapses = IF waited THEN @ + 1 ELSE @,
                            !.ret = [ of |-> "readAllSensors",
                                      data |-> r.data, in |-> in ]])

SensSetFan ==
    /\ booted
    /\ \E on \in BOOLEAN :
          Commit([setFanState(Begin(St), on) EXCEPT
                     !.ret = [ of |-> "setFanState" ]])

SensGetFan ==
    /\ booted
    /\ Commit([Begin(St) EXCEPT
                  !.ret = [ of |-> "getFanState", v |-> getFanState(St) ]])

SensElapse ==
    /\ booted
    /\ elapses < MaxSensElapses
    /\ \E d \in SensDeltas :
          Commit([Pass(Begin(St), d) EXCEPT
                     !.elapses = @ + 1, !.ret = [ of |-> "none" ]])

SensNext == SensInit \/ SensRead \/ SensSetFan \/ SensGetFan \/ SensElapse

SpecSensor == Init /\ [][SensNext]_vars

----------------------------------------------------------------------------
(* The CO2 exchange driven on its own: init() once, then sensing cycles    *)
(* that differ in what the MH-Z19C answers and when.                       *)

Co2Read ==
    /\ booted
    /\ \E in \in ExchangeInputs :
          LET r == readAllSensors(Begin(St), in)
              waited == r.st.now > now
          IN  /\ waited => elapses < MaxExchanges
              /\ Commit([r.st EXCEPT
                            !.elapses = IF waited THEN @ + 1 ELSE @,
                            !.ret = [ of |-> "readAllSensors",
                                      data |-> r.data, in |-> in ]])

Co2Next == SensInit \/ Co2Read

SpecCO2 == Init /\ [][Co2Next]_vars

----------------------------------------------------------------------------
(* The CO2 exchange with the receive buffer of Serial2 between the calls:  *)
(* the MH-Z19C answers request k, if it answers, with the concentration k, *)
(* in time or after the 150 ms wait is over; a frame that readCO2() has    *)
(* not read stays in the buffer, which the code never empties.             *)

\* The answers of the MH-Z19C to the disable-autocalibration command and
\* to the k-th read request.
AckFrame == [ bytes |-> << 255, 121, 1, 0 >>, req |-> 0 ]
Answer(k) == [ bytes |-> << 255, 134, 0, k >>, req |-> k ]

\* When the answer to a read request is complete, in ms after the request.
AnswerTimes == { 0 } \cup Arrivals

UartInit ==
    /\ ~booted
    /\ \E bmpFound \in BOOLEAN, acked \in BOOLEAN :
          Commit([SensorManager_init(Begin(St), bmpFound) EXCEPT
                     !.booted = TRUE,
                     !.uart.buf = IF acked THEN << AckFrame >> ELSE << >>])

\* One call of readCO2(): it reads the oldest frame of the buffer if there
\* is one, and the answer to its own request arrives after it returned;
\* otherwise it waits for the answer to its own request.
UartRead ==
    /\ booted
    /\ uart.n < MaxExchanges
    /\ \E answers \in BOOLEAN, at \in AnswerTimes, p \in 1 .. MaxPollGap :
          LET k == uart.n + 1
              stale == uart.buf # << >>
              rx == IF stale THEN Rx(Head(uart.buf).bytes, 0, p)
                    ELSE IF answers THEN Rx(Answer(k).bytes, at, p)
                    ELSE Rx(Timeout, 0, p)
              r == readCO2(Begin(St), rx)
              read == stale \/ (answers /\ ~WaitResponse(rx).timeout)
              left == IF stale THEN Tail(uart.buf) ELSE << >>
          IN  Commit([r.st EXCEPT
                         !.uart = [ n |-> k,
                                    buf |-> IF answers /\ (stale \/ ~read)
                                            THEN Append(left, Answer(k))
                                            ELSE left ],
                         !.ret = [ of |-> "readCO2", co2 |-> r.co2,
                                   req |-> k,
                                   from |-> IF stale THEN Head(uart.buf).req
                                            ELSE IF read THEN k ELSE -1,
                                   buffered |-> Len(uart.buf) ]])

UartNext == UartInit \/ UartRead

SpecUart == Init /\ [][UartNext]_vars

----------------------------------------------------------------------------
(* The checksum routine driven on its own: init() sends its frame, then    *)
(* the routine is applied to one 9-byte packet and the result stored in    *)
(* byte 8, as init() does.                                                 *)

FrameBytes == { 0, 134, 255 }
FramePackets == [ 1 .. 9 -> FrameBytes ]

FrameSeal ==
    /\ booted
    /\ packet = NoPacket
    /\ \E pkt \in FramePackets :
          LET checksum == calculateChecksum(pkt)
          IN  Commit([Begin(St) EXCEPT
                         !.packet = [pkt EXCEPT ![9] = checksum],
                         !.ret = [ of |-> "calculateChecksum",
                                   v |-> checksum, pkt |-> pkt ]])

FrameNext == SensInit \/ FrameSeal

SpecFrame == Init /\ [][FrameNext]_vars

----------------------------------------------------------------------------
(* Claims about the calibration sequencer (SpecCal).                       *)

\* The last handler was exactly this one call.
Only(call) == obs.calls = << call >>

\* C1: startCalibration() called while the phase is STABILIZING or PULSING
\* changes neither the phase, nor the start timestamp (nor the log
\* timestamp), nor the level of the calibration pin.
C1_BusyStartIsNoOp ==
    [][ (obs'.calls = << "startCalibration" >> /\ currentState # "IDLE")
        => /\ currentState' = currentState
           /\ stateStartTime' = stateStartTime
           /\ lastLogTime' = lastLogTime
           /\ hdPin' = hdPin ]_vars

\* startCalibration() has just been called during the pulse, after the
\* pulse began.
C1_Witness ==
    /\ Only("startCalibration")
    /\ currentState = "PULSING"
    /\ now > stateStartTime

\* C2: startCalibration() called in IDLE moves the phase to STABILIZING,
\* sets the start timestamp to the clock value and leaves the calibration
\* pin inactive; the pin is inactive in every STABILIZING state.
C2_IdleStartStabilizes ==
    /\ [][ (obs'.calls = << "startCalibration" >> /\ currentState = "IDLE")
           => /\ currentState' = "STABILIZING"
              /\ stateStartTime' = now
              /\ now' = now
              /\ hdPin' = hdPin
              /\ hdPin' = "HIGH" ]_vars
    /\ [](currentState = "STABILIZING" => hdPin = "HIGH")

\* startCalibration() has just started a stabilization, not at boot time.
C2_Witness ==
    /\ Only("startCalibration")
    /\ currentState = "STABILIZING"
    /\ stateStartTime = now
    /\ now > BootTime
    /\ hdPin = "HIGH"

\* C3: run() in STABILIZING before stabDuration has elapsed since the start
\* leaves phase, timestamp and pin as they are; once stabDuration has
\* elapsed it moves the phase to PULSING, asserts the pin (LOW) and
\* records the clock value it then reads as the new start timestamp.
C3_StabilizationTiming ==
    [][ (obs'.calls = << "run" >> /\ currentState = "STABILIZING")
        => IF now - stateStartTime < STABILIZATION_TIME_MS
           THEN /\ currentState' = "STABILIZING"
                /\ stateStartTime' = stateStartTime
                /\ hdPin' = hdPin
           ELSE /\ currentState' = "PULSING"
                /\ hdPin' = "LOW"
                /\ stateStartTime' = now'
                /\ now' >= now ]_vars

\* run() has just moved to PULSING exactly stabDuration after a
\* calibration started at boot time (no earlier start exists).
C3_Witness ==
    /\ Only("run")
    /\ currentState = "PULSING"
    /\ hdPin = "LOW"
    /\ stateStartTime = BootTime + STABILIZATION_TIME_MS
    /\ now = stateStartTime

\* C4: the pulse timer starts when PULSING is entered and is not touched
\* during the pulse; run() earlier than 7000 ms after that leaves phase
\* and pin unchanged, and the phase leaves PULSING only when at least
\* 7000 ms have elapsed since it was entered.
C4_PulseFloor ==
    [][ /\ (currentState # "PULSING" /\ currentState' = "PULSING")
            => stateStartTime' = now'
        /\ (currentState = "PULSING" /\ currentState' = "PULSING")
            => (stateStartTime' = stateStartTime /\ hdPin' = hdPin)
        /\ (currentState = "PULSING" /\ currentState' # "PULSING")
            => now - stateStartTime >= PULSE_TIME_MS
        /\ (obs'.calls = << "run" >> /\ currentState = "PULSING"
               /\ now - stateStartTime < PULSE_TIME_MS)
            => (currentState' = "PULSING" /\ hdPin' = hdPin) ]_vars

\* run() has just been called 6999 ms into the pulse.
C4_Witness ==
    /\ Only("run")
    /\ currentState = "PULSING"
    /\ hdPin = "LOW"
    /\ now - stateStartTime = PULSE_TIME_MS - 1

----------------------------------------------------------------------------
(* Claims about the node (Spec).                                           *)

\* The calls of a handler, and the places of a call among them.
Places(calls, call) == { i \in 1 .. Len(calls) : calls[i] = call }
Before(calls, a, b) ==
    \A i \in Places(calls, a) : \A j \in Places(calls, b) : i < j

\* The step is one pass of loop().
LoopStep == Places(obs'.calls, "getCalibrationCommand") # {}

\* C5: a pass of loop() calls setSystemState(READY) exactly when the
\* sequencer was calibrating at the previous pass and is idle at this one,
\* it calls it once, and ReadinessState is READY after the pass; a pass in
\* which the sequencer stays idle does not call it.  wasCalibrating is the
\* sequencer's status as the previous pass left it.
C5_EdgeTriggeredReady ==
    /\ [][ LoopStep =>
            /\ (Places(obs'.calls, "setSystemState(READY)") # {})
                   <=> (wasCalibrating /\ currentState' = "IDLE")
            /\ Cardinality(Places(obs'.calls, "setSystemState(READY)")) <= 1
            /\ (Places(obs'.calls, "setSystemState(READY)") # {})
                   => state' = "READY" ]_vars
    /\ [](wasCalibrating <=> currentState # "IDLE")

\* The pass in which the pulse ended has set READY; a telemetry push of the
\* same pass shows it.
C5_Witness ==
    /\ Called("setSystemState(READY)")
    /\ Called("updateSensorValues")
    /\ currentState = "IDLE"
    /\ hdPin = "HIGH"
    /\ state = "READY"
    /\ chars.systemState = "READY"

\* C6: a handler that ran a sensing cycle (readAllSensors, readCO2) or
\* pushed telemetry left the sequencer idle: no pass of loop() in which the
\* sequencer is calibrating at step 5 senses or pushes.
C6_NoSensingWhileCalibrating ==
    (Called("readAllSensors") \/ Called("readCO2")
        \/ Called("updateSensorValues") \/ Called("bmp.begin"))
    => currentState = "IDLE"

\* A pass of loop() during the pulse, with a client connected and the
\* sensing period long elapsed, that did not sense.
C6_Witness ==
    /\ Called("run")
    /\ currentState = "PULSING"
    /\ deviceConnected
    /\ now - lastSensorReadTime >= SENSOR_READ_INTERVAL
    /\ ~Called("readAllSensors")
    /\ ~Called("updateSensorValues")

\* C7: in a pass of loop() the command is polled first, startCalibration()
\* comes before run(), run() before the fan toggle, the fan toggle before
\* the sensing cycle and the sensing cycle before the telemetry push; the
\* pass that reads START_CAL while the sequencer is IDLE leaves it
\* calibrating and neither senses nor pushes telemetry.
C7_FixedStepOrder ==
    [][ LoopStep =>
        LET calls == obs'.calls
            fan == IF fan_state THEN "setFanState(false)"
                   ELSE "setFanState(true)"
        IN  /\ calls[1] = "getCalibrationCommand"
            /\ Cardinality(Places(calls, "getCalibrationCommand")) = 1
            /\ Cardinality(Places(calls, "run")) = 1
            /\ Before(calls, "startCalibration", "run")
            /\ Before(calls, "setSystemState(CALIBRATING)", "run")
            /\ Before(calls, "run", "setSystemState(READY)")
            /\ Before(calls, "run", "readAllSensors")
            /\ Before(calls, "readAllSensors", "updateSensorValues")
            /\ toggleCoolerRequest =>
                 \E i \in Places(calls, fan) :
                    /\ \A j \in Places(calls, "run") : j < i
                    /\ \A j \in Places(calls, "readAllSensors") : i < j
            /\ (calibrationCommand = START_CAL /\ currentState = "IDLE") =>
                 /\ Places(calls, "startCalibration") # {}
                 /\ currentState' = "STABILIZING"
                 /\ stateStartTime' = now'
                 /\ Places(calls, "readAllSensors") = {}
                 /\ Places(calls, "readCO2") = {}
                 /\ Places(calls, "updateSensorValues") = {} ]_vars

\* The pass that read START_CAL in IDLE, with a fan toggle pending, a
\* client connected and the sensing period elapsed: it started the
\* calibration, toggled the fan and stopped there.
C7_Witness ==
    /\ obs.calls = << "getCalibrationCommand", "startCalibration",
                      "setSystemState(CALIBRATING)", "run",
                      "setFanState(true)" >>
    /\ currentState = "STABILIZING"
    /\ stateStartTime = now
    /\ deviceConnected
    /\ now - lastSensorReadTime >= SENSOR_READ_INTERVAL

\* C8: init() leaves ReadinessState PREHEATING with the fan off; a sensing
\* cycle run in PREHEATING more than 60000 ms after init() leaves
\* ReadinessState READY and the fan on, whatever its sensors deliver, and
\* one run 60000 ms after init() or earlier leaves it PREHEATING.
C8_PreheatToReady ==
    /\ [][ (~booted /\ booted') =>
             /\ state' = "PREHEATING"
             /\ fan_state' = FALSE
             /\ fanPin' = "LOW"
             /\ preheat_start_time' = now' ]_vars
    /\ [][ (Places(obs'.calls, "readAllSensors") # {}
               /\ state = "PREHEATING") =>
             IF lastSensorReadTime' - preheat_start_time > PREHEAT_TIME_MS
             THEN /\ state' = "READY"
                  /\ fan_state' = TRUE
                  /\ fanPin' = "HIGH"
             ELSE state' = "PREHEATING" ]_vars

\* The sensing cycle run 60001 ms after init(), whose CO2 read timed out,
\* has ended the preheat and turned the fan on.
C8_Witness ==
    /\ Called("readAllSensors")
    /\ Called("setFanState(true)")
    /\ state = "READY"
    /\ fan_state
    /\ lastSensorReadTime - preheat_start_time = PREHEAT_TIME_MS + 1
    /\ now = lastSensorReadTime + CO2_TIMEOUT_MS + 1

\* C8 as stated: a sensing cycle run in PREHEATING at least 60000 ms after
\* init() leaves ReadinessState READY and the fan on.
C8_AtLeast60000 ==
    [][ (/\ Places(obs'.calls, "readAllSensors") # {}
         /\ state = "PREHEATING"
         /\ lastSensorReadTime' - preheat_start_time >= PREHEAT_TIME_MS)
        => (state' = "READY" /\ fan_state' = TRUE) ]_vars

\* C9: every change of ReadinessState is PREHEATING to READY, READY to
\* CALIBRATING or CALIBRATING to READY; never PREHEATING to CALIBRATING.
C9_ThreeTransitions ==
    [][ state' # state =>
          << state, state' >> \in { << "PREHEATING", "READY" >>,
                                    << "READY", "CALIBRATING" >>,
                                    << "CALIBRATING", "READY" >> } ]_vars

\* C10: once ReadinessState is not PREHEATING it is never PREHEATING
\* again.
C10_PreheatingNotReentered ==
    [][ state # "PREHEATING" => state' # "PREHEATING" ]_vars

\* A sensing cycle whose CO2 read timed out ran after a calibration had
\* completed, and the node is READY.
C10_Witness ==
    /\ Called("readCO2")
    /\ state = "READY"
    /\ now = lastSensorReadTime + CO2_TIMEOUT_MS + 1
    /\ now > STABILIZATION_TIME_MS + PULSE_TIME_MS

----------------------------------------------------------------------------
(* Claims about the CO2 exchange (SpecCO2).                                *)

\* The step is a sensing cycle made by a driver of the SensorManager.
ReadStep == ret'.of = "readAllSensors" /\ Places(obs'.calls, "readCO2") # {}

\* The time after the request of the first pass of the wait loop that is
\* later than 150 ms, when the passes are every ms apart.
FirstPassAfterTimeout(every) == ((CO2_TIMEOUT_MS \div every) + 1) * every

\* C11: readCO2() returns no later than the first pass of its wait loop
\* made more than 150 ms after the request; if fewer than 9 bytes are
\* available at every pass up to that one (0 bytes included) it returns -1
\* at that pass, and 9 bytes available at an earlier pass, or at that one,
\* are read at the first pass that finds them.
C11_ReadCO2Returns ==
    [][ ReadStep =>
        LET rx == ret'.in.rx
            T == FirstPassAfterTimeout(rx.every)
            waited == now' - now
        IN  /\ waited <= T
            /\ T <= CO2_TIMEOUT_MS + rx.every
            /\ obs'.tx = << cmd >>
            /\ (~IsFrame(rx) \/ rx.at > T)
                  => (ret'.data.co2 = -1 /\ waited = T)
            /\ (IsFrame(rx) /\ rx.at <= T)
                  => /\ rx.at <= waited
                     /\ waited < rx.at + rx.every
                     /\ (rx.bytes = GoodFrame => ret'.data.co2 = 400) ]_vars

\* A read that got no byte at all, polled at the longest interval, has
\* returned -1.
C11_Witness ==
    /\ ret.of = "readAllSensors"
    /\ ret.in.rx.bytes = Timeout
    /\ ret.in.rx.every = MaxPollGap
    /\ ret.data.co2 = -1
    /\ obs.tx = << cmd >>
    /\ now >= BootTime + FirstPassAfterTimeout(MaxPollGap)

\* C11 as stated: fewer than 9 bytes available within 150 ms of the
\* request make readCO2() return -1.
C11_TimeoutWithin150 ==
    [][ ReadStep =>
        LET rx == ret'.in.rx
        IN  (~IsFrame(rx) \/ rx.at > CO2_TIMEOUT_MS)
               => ret'.data.co2 = -1 ]_vars

\* C12: a read that received 9 bytes returns 256 * bytes[2] + bytes[3] if
\* bytes[0] = 0xFF and bytes[1] = 0x86, which is in 0..65535 and so not -1,
\* and returns -1 for any other header; 0xFF 0x86 0x01 0x90 gives 400.
C12_FrameDecoding ==
    [][ (ReadStep /\ IsFrame(ret'.in.rx)
            /\ ret'.in.rx.at <= FirstPassAfterTimeout(ret'.in.rx.every)) =>
        LET b == ret'.in.rx.bytes
            co2 == ret'.data.co2
        IN  /\ (b[1] = 255 /\ b[2] = 134)
                  => /\ co2 = 256 * b[3] + b[4]
                     /\ co2 \in 0 .. 65535
                     /\ co2 # -1
            /\ ~(b[1] = 255 /\ b[2] = 134) => co2 = -1
            /\ b = << 255, 134, 1, 144 >> => co2 = 400 ]_vars

\* A frame with the right second header byte and a wrong first one was
\* received and rejected.
C12_Witness ==
    /\ ret.of = "readAllSensors"
    /\ ret.in.rx.bytes = << 254, 134, 1, 144 >>
    /\ ret.data.co2 = -1
    /\ obs.tx = << cmd >>

----------------------------------------------------------------------------
(* Claims about the checksum (SpecFrame).                                  *)

\* The sum of the bytes at C indices i .. j of a packet.
RECURSIVE SumBytes(_, _, _)
SumBytes(pkt, i, j) ==
    IF i > j THEN 0 ELSE pkt[i + 1] + SumBytes(pkt, i + 1, j)

\* The step applies the checksum routine.
SealStep == ret'.of = "calculateChecksum"

\* C13: the checksum of a 9-byte frame is 0xFF minus the byte-wide sum of
\* the bytes 1..7, plus 1, each step kept in one byte; the bytes 0 and 8 do
\* not contribute; the frame init() sends is the disable-autocalibration
\* command with this checksum (0x86) in byte 8.
C13_ChecksumOfFrame ==
    [][ /\ SealStep =>
            LET pkt == ret'.pkt
                sum == SumBytes(pkt, 1, 7) % 256
            IN  /\ ret'.v = (((255 - sum) % 256) + 1) % 256
                /\ ret'.v \in 0 .. 255
                /\ \A b0, b8 \in FrameBytes :
                      ret'.v = calculateChecksum([pkt EXCEPT ![1] = b0,
                                                             ![9] = b8])
                /\ packet' = [pkt EXCEPT ![9] = ret'.v]
        /\ (~booted /\ booted') =>
            /\ Len(obs'.tx) = 1
            /\ obs'.tx[1] = << 255, 1, 121, 0, 0, 0, 0, 0, 134 >>
            /\ obs'.tx[1][9]
                  = (255 - SumBytes(obs'.tx[1], 1, 7) + 1) % 256 ]_vars

\* The routine was applied to a packet whose bytes 0 and 8 are not zero and
\* whose bytes 1..7 sum to more than one byte holds.
C13_Witness ==
    /\ ret.of = "calculateChecksum"
    /\ ret.pkt[1] = 255
    /\ ret.pkt[9] = 134
    /\ SumBytes(ret.pkt, 1, 7) > 255
    /\ packet[9] = ret.v
    /\ ret.v # ret.pkt[9]

\* C14: a frame whose byte 8 is the checksum the routine computed for it
\* has bytes 1..8 summing to 0 modulo 256.
C14_ChecksumRoundTrip ==
    [][ SealStep =>
          /\ packet'[9] = calculateChecksum(packet')
          /\ SumBytes(packet', 1, 8) % 256 = 0 ]_vars

\* A sealed frame whose bytes 1..7 are not all zero and whose checksum is
\* not zero.
C14_Witness ==
    /\ ret.of = "calculateChecksum"
    /\ packet[9] = ret.v
    /\ ret.v # 0
    /\ SumBytes(packet, 1, 7) > 255
    /\ SumBytes(packet, 1, 8) % 256 = 0

\* C15: for every packet the routine returns (0x100 - sum of the bytes
\* 1..7) mod 256, that is (0xFF - sum + 1) mod 256.
C15_ChecksumValue ==
    [][ SealStep =>
          ret'.v = (256 - SumBytes(ret'.pkt, 1, 7)) % 256 ]_vars

\* The routine returned 0 for a packet whose bytes 1..7 are all zero.
C15_Witness ==
    /\ ret.of = "calculateChecksum"
    /\ SumBytes(ret.pkt, 1, 7) = 0
    /\ ret.pkt[1] = 255
    /\ ret.v = 0

\* C15 as stated: the routine returns (0xFF - sum of the bytes 1..7)
\* mod 256.
C15_WithoutIncrement ==
    [][ SealStep =>
          ret'.v = (255 - SumBytes(ret'.pkt, 1, 7)) % 256 ]_vars

----------------------------------------------------------------------------
(* Claims about the fan.                                                   *)

\* C16: once the two fan-toggle requests of a pair have been written and a
\* pass of loop() has cleared the request flag, the fan state is the one
\* the first request found (the pair began after the preheat, so the
\* automatic fan-on does not come between).
C16_TwoTogglesRestore ==
    (pair.n = 2 /\ ~toggleCoolerRequest /\ pair.st # "PREHEATING")
    => fan_state = pair.base

\* The program variables other than the fan's.
notFan == << now, currentState, stateStartTime, lastLogTime, hdPin, state,
             preheat_start_time, bmp_initialized,
             last_bmp_reconnect_attempt, deviceConnected,
             toggleCoolerRequest, calibrationCommand, chars,
             wasCalibrating, lastSensorReadTime >>

\* C17: after init() the fan flag is true exactly when the fan pin is
\* HIGH; setFanState(on) leaves the flag equal to on and the pin at the
\* matching level and changes nothing else, and a second call with the
\* same argument changes nothing; getFanState() returns the flag and
\* changes nothing.
C17_FanFlagIsPinLevel ==
    /\ [](booted => (fan_state <=> fanPin = "HIGH"))
    /\ [](booted => fanPin \in { "HIGH", "LOW" })
    /\ [][ ret'.of = "setFanState" =>
             LET on == Places(obs'.calls, "setFanState(true)") # {}
             IN  /\ Len(obs'.calls) = 1
                 /\ fan_state' = on
                 /\ fanPin' = (IF on THEN "HIGH" ELSE "LOW")
                 /\ UNCHANGED notFan
                 /\ (ret.of = "setFanState" /\ obs.calls = obs'.calls)
                       => UNCHANGED << fan_state, fanPin >> ]_vars
    /\ [][ ret'.of = "getFanState" =>
             /\ ret'.v = fan_state
             /\ UNCHANGED << fan_state, fanPin >>
             /\ UNCHANGED notFan ]_vars

\* setFanState(false) has just turned off the fan that the end of the
\* preheat had turned on.
C17_Witness ==
    /\ ret.of = "setFanState"
    /\ obs.calls = << "setFanState(false)" >>
    /\ state = "READY"
    /\ fan_state = FALSE
    /\ fanPin = "LOW"

----------------------------------------------------------------------------
(* Claims about the BMP280 retry (SpecSensor).                             *)

\* C18: a sensing cycle begun while the BMP280 is not marked initialized
\* returns pressure -1; it makes one reconnect attempt if more than
\* 5000 ms have elapsed since the last one (since 0 before the first), and
\* none otherwise; an attempt records the clock value and marks the sensor
\* initialized if it answers, so that attempts go on, more than 5000 ms
\* apart, until one succeeds.
C18_BmpRetry ==
    [][ ret'.of = "readAllSensors" =>
        LET attempts == Places(obs'.calls, "bmp.begin")
        IN  /\ ~bmp_initialized => ret'.data.pressure = -100
            /\ bmp_initialized => ret'.data.pressure = ret'.in.pres
            /\ Cardinality(attempts) <= 1
            /\ attempts # {} <=>
                  /\ ~bmp_initialized
                  /\ now - last_bmp_reconnect_attempt > BMP_RETRY_MS
            /\ attempts # {} =>
                  /\ last_bmp_reconnect_attempt' = now
                  /\ bmp_initialized' = ret'.in.bmpFound
            /\ attempts = {} =>
                  /\ last_bmp_reconnect_attempt' = last_bmp_reconnect_attempt
                  /\ bmp_initialized' = bmp_initialized ]_vars

\* A sensing cycle has made a reconnect attempt 5001 ms after the one
\* before, which was the first the clock allowed; the BMP280 did not
\* answer.
C18_Witness ==
    /\ ret.of = "readAllSensors"
    /\ Called("bmp.begin")
    /\ ~bmp_initialized
    /\ ret.data.pressure = -100
    /\ last_bmp_reconnect_attempt = now
    /\ now = BootTime + 2 * (BMP_RETRY_MS - 1) + 2

\* C18 as stated: once at least 5000 ms have elapsed since the last
\* reconnect attempt, a sensing cycle begun while the BMP280 is not
\* marked initialized makes a reconnect attempt.
C18_AtLeast5000 ==
    [][ (/\ ret'.of = "readAllSensors"
         /\ ~bmp_initialized
         /\ now - last_bmp_reconnect_attempt >= BMP_RETRY_MS)
        => Places(obs'.calls, "bmp.begin") # {} ]_vars

----------------------------------------------------------------------------
(* Claims about commands.                                                  *)

C21_TelemetryOnlyWhenConnected ==
    [][ /\ ret'.of = "updateSensorValues" =>
            /\ ret'.connected = deviceConnected
            /\ chars'.calibrate = chars.calibrate
            /\ IF deviceConnected
               THEN /\ chars'.temp = StringFloat2(ret'.d.temp)
                    /\ chars'.hum = StringFloat2(ret'.d.hum)
                    /\ chars'.pres = StringFloat2(ret'.d.pres)
                    /\ chars'.co2 = StringInt(ret'.d.co2)
                    /\ chars'.systemState = ret'.d.systemStatus
                    /\ chars'.coolerState = ret'.d.coolerStatus
               ELSE chars' = chars
        /\ ret'.of = "onConnect" => deviceConnected'
        /\ ret'.of = "onDisconnect" => ~deviceConnected'
        /\ deviceConnected' # deviceConnected =>
            ret'.of \in { "onConnect", "onDisconnect" } ]_vars

\* A peer was shown a snapshot and left, and the snapshot pushed after that
\* changed none of the six attributes.
C21_Witness ==
    /\ ret.of = "updateSensorValues"
    /\ ~ret.connected
    /\ ret.d.systemStatus = "CALIBRATING"
    /\ chars.systemState = "READY"
    /\ chars.temp = "23.50"
    /\ chars.co2 = "400"

\* C22: while the sequencer is not IDLE, HD_PIN is written by
\* CalibrationManager only: a write made by another class happens in a step
\* that begins and ends with the sequencer IDLE; HD_PIN changes level only
\* by such a recorded write, and while the sequencer is not IDLE only in a
\* step that calls run().
C22_OnlySequencerWritesPin ==
    [][ /\ \A i \in DOMAIN obs'.pins :
              obs'.pins[i].by # "CalibrationManager" =>
                  currentState = "IDLE" /\ currentState' = "IDLE"
        /\ hdPin' # hdPin =>
              /\ obs'.pins # << >>
              /\ hdPin' = obs'.pins[Len(obs'.pins)].level
        /\ (currentState # "IDLE" /\ hdPin' # hdPin) =>
              Places(obs'.calls, "run") # {} ]_vars

\* During the pulse a pass toggled the fan on, sensed nothing and left
\* HD_PIN low with no write to it.
C22_Witness ==
    /\ currentState = "PULSING"
    /\ hdPin = "LOW"
    /\ Called("run")
    /\ Called("setFanState(true)")
    /\ fanPin = "HIGH"
    /\ obs.pins = << >>

\* C24: once CalibrationManager::init() has run, HD_PIN is LOW exactly when
\* the sequencer is PULSING, and HIGH while it is IDLE or STABILIZING.
C24_PinLowIffPulsing ==
    booted =>
        /\ hdPin = "LOW" <=> currentState = "PULSING"
        /\ currentState \in { "IDLE", "STABILIZING" } => hdPin = "HIGH"
        /\ currentState \in { "IDLE", "STABILIZING", "PULSING" }

\* run() was called one millisecond before the pulse is over and left the
\* pin low.
C24_Witness ==
    /\ currentState = "PULSING"
    /\ hdPin = "LOW"
    /\ Only("run")
    /\ now - stateStartTime = PULSE_TIME_MS - 1

\* C23: with run() called again and again and the clock advancing, a
\* sequencer that is STABILIZING eventually is PULSING, and one that is
\* PULSING eventually is IDLE with HD_PIN high: a calibration that started
\* comes to its end.
C23_CalibrationTerminates ==
    /\ (currentState = "STABILIZING") ~> (currentState = "PULSING")
    /\ (currentState = "PULSING") ~>
           (currentState = "IDLE" /\ hdPin = "HIGH")

\* A calibration that started has gone through its pulse of 7 s or more
\* and run() has just ended it.
C23_Witness ==
    /\ currentState = "IDLE"
    /\ hdPin = "HIGH"
    /\ Only("run")
    /\ obs.pins # << >>
    /\ now >= BootTime + STABILIZATION_TIME_MS + PULSE_TIME_MS

\* C25: at the end of every pass of loop() the readiness state is
\* CALIBRATING exactly when the sequencer is not IDLE, whatever commands
\* were written and whenever the passes run; no step between two passes
\* changes either of the two.
C25_CalibratingIffSequencerBusy ==
    [][ /\ LoopStep =>
              (state' = "CALIBRATING" <=> currentState' # "IDLE")
        /\ ~LoopStep =>
              (booted => state' = state /\ currentState' = currentState)
      ]_vars

\* START_CAL was read while the pulse was ending: the pass set CALIBRATING,
\* run() ended the calibration and the edge set READY.
C25_Witness ==
    /\ FirstCall("startCalibration") > 0
    /\ Called("run")
    /\ obs.pins # << >>
    /\ currentState = "IDLE"
    /\ state = "READY"

\* C26: when a calibration that started with a peer connected comes to its
\* end and the peer has stayed connected all along, the system-state
\* characteristic has read "CALIBRATING" at some point since the start.
C26_CalibratingShown ==
    [][ (seen.cal /\ currentState # "IDLE" /\ currentState' = "IDLE")
            => seen.shown ]_vars

\* C27: with no fan-toggle request ever made, the fan is on in every state
\* whose readiness state is not PREHEATING.
C27_FanOnAfterPreheating ==
    state # "PREHEATING" => fan_state = TRUE

\* C28: whatever the interleaving of onWrite() with the calls of
\* getCalibrationCommand(), every non-empty string the calls return is
\* START_CAL, at most one call returns it, and once the write is complete,
\* no call is in progress and nothing is pending, one call has returned it.
C28_WriteDeliveredOnce ==
    /\ \A k \in DOMAIN race.got : race.got[k] = START_CAL
    /\ Len(race.got) <= 1
    /\ (race.w = "done" /\ race.pc = "idle" /\ calibrationCommand = Empty)
           => Len(race.got) = 1

\* C29: a value other than -1 returned by readCO2() is decoded from the
\* answer to the request sent in that same call, and the receive buffer
\* holds no frame of an earlier exchange when a call sends its request.
C29_FreshResponse ==
    ret.of = "readCO2" =>
        /\ ret.co2 # -1 => (ret.from = ret.req /\ ret.co2 = ret.req)
        /\ ret.buffered = 0

====
